---- MODULE Spec2Model ----
(***************************************************************************)
(* A model of torch/csrc/distributed/c10d/intra_node_comm.cu: the          *)
(* intra-node all-reduce (one-shot, two-shot, hybrid cube mesh), its       *)
(* cross-device barrier, the algorithm selector and the dispatcher.        *)
(*                                                                         *)
(* The selector and the launch arithmetic are checked with the program's   *)
(* own constants (RealGeom).  Kernel runs are checked on a scaled-down     *)
(* geometry (ModelGeom): the kernels are written against blockDim,         *)
(* gridDim, N and N_aligned only, so a run with a 4-lane warp and 2        *)
(* elements per thread walks the same code as one with 32 lanes and 8.     *)
(***************************************************************************)
EXTENDS Integers, Sequences, FiniteSets, TLC

----------------------------------------------------------------------------
(* Program constants.                                                      *)

kBytesPerThread == 16
kMaxAllReduceBlocks == 24
kThreadsPerBlock == 1024
kWarpSize == 32
kHcmThreshBytes == 256 * 1024
kOneShotThreshBytes == 256 * 1024
kTwoShotThreshBytes == 10 * 1024 * 1024
\* sizeof(at::BFloat16)
kBF16Size == 2
\* Declared in intra_node_comm.hpp; the values are the specification's.
kMaxDevices == 8
kMaxIntraNodeSize == 10 * 1024 * 1024 * 2

\* at::ScalarType, as far as the code tells them apart: the element size.
DTypes == {"BFloat16", "Half", "Float"}
element_size(dtype) == IF dtype = "Float" THEN 4 ELSE 2

Topologies == {"UNKNOWN", "FULLY_CONNECTED", "HYBRID_CUBE_MESH"}
AllReduceAlgos == {"NONE", "ONE_SHOT", "TWO_SHOT", "HCM"}

----------------------------------------------------------------------------
(* Geometry: the compile-time numbers the host code and the kernels read.  *)
(* uintBits is the width of uint32_t.  TLC's integers are 32-bit signed,   *)
(* so a wrap at 2^32 is beyond them: with uintBits = 32 every value TLC    *)
(* can hold is below the modulus and the wrap is the identity.             *)

RealGeom ==
  [bytesPerThread |-> kBytesPerThread, warpSize |-> kWarpSize,
   threadsPerBlock |-> kThreadsPerBlock, maxBlocks |-> kMaxAllReduceBlocks,
   maxIntraNodeSize |-> kMaxIntraNodeSize, uintBits |-> 32]

\* static_cast<uint32_t>(x), the conversion at divUp's and alignUp's parameters
U32(x, g) == IF g.uintBits >= 31 THEN x ELSE x % (2 ^ g.uintBits)

divUp(a, b, g) == U32(U32(a, g) + U32(b, g) - 1, g) \div U32(b, g)

alignUp(a, b, g) == divUp(a, b, g) * U32(b, g)

Min(a, b) == IF a < b THEN a ELSE b

\* kBytesPerThread / input.element_size() * kWarpSize
numelPerWarpOf(g, elemSize) == (g.bytesPerThread \div elemSize) * g.warpSize

----------------------------------------------------------------------------
(* selectAllReduceAlgo.  "RAISE" is the c10::Error TORCH_CHECK throws.     *)

\* the selector with the two-shot window aligned as the one-shot window is
selectAllReduceAlgoWarpAligned(dtype, numel, topology, worldSize) ==
  LET elemSize == element_size(dtype)
      numelPerWarp == numelPerWarpOf(RealGeom, elemSize)
      fc ==
        IF topology = "FULLY_CONNECTED"
        THEN IF alignUp(numel, numelPerWarp, RealGeom) <= kOneShotThreshBytes
             THEN "ONE_SHOT"
             ELSE IF alignUp(numel, numelPerWarp, RealGeom) <= kTwoShotThreshBytes
                  THEN "TWO_SHOT"
                  ELSE "NONE"
        ELSE "NONE"
  IN  IF dtype # "BFloat16" \/ numel * elemSize > kMaxIntraNodeSize
      THEN "NONE"
      ELSE IF topology = "HYBRID_CUBE_MESH"
           THEN IF worldSize # 8
                THEN "RAISE"
                ELSE IF alignUp(numel, numelPerWarp, RealGeom) <= kHcmThreshBytes
                     THEN "HCM"
                     ELSE fc
           ELSE fc

selectAllReduceAlgo(dtype, numel, topology, worldSize) ==
  LET elemSize == element_size(dtype)
      numelPerWarp == numelPerWarpOf(RealGeom, elemSize)
      fc ==
        IF topology = "FULLY_CONNECTED"
        THEN IF alignUp(numel, numelPerWarp, RealGeom) <= kOneShotThreshBytes
             THEN "ONE_SHOT"
             ELSE IF alignUp(numel, numelPerWarp * worldSize, RealGeom)
                       <= kTwoShotThreshBytes
                  THEN "TWO_SHOT"
                  ELSE "NONE"
        ELSE "NONE"
  IN  IF dtype # "BFloat16" \/ numel * elemSize > kMaxIntraNodeSize
      THEN "NONE"
      ELSE IF topology = "HYBRID_CUBE_MESH"
           THEN IF worldSize # 8
                THEN "RAISE"
                ELSE IF alignUp(numel, numelPerWarp, RealGeom) <= kHcmThreshBytes
                     THEN "HCM"
                     ELSE fc
           ELSE fc

----------------------------------------------------------------------------
(* The scaled geometry of the kernel runs.  Each number below bounds the   *)
(* model; the program's value is named beside it.                          *)

\* elements per thread (program: kBytesPerThread / sizeof(bf16) = 8)
LanesPerThread == 2
\* threads per warp (program: kWarpSize = 32)
WarpLanes == 4
\* warps per block (program: kThreadsPerBlock / kWarpSize = 32)
BlockWarps == 1
\* blocks per grid (program: kMaxAllReduceBlocks = 24)
GridBlocks == 2
\* elements per PeerBuffer (program: kMaxIntraNodeSize / sizeof(bf16))
BufferElems == 32
\* bits of uint32_t in the runs that exercise its wrap (program: 32); wide
\* enough for every alignment unit, as the program's is
UintBits == 7
\* bits of size_t in the kernels' index arithmetic (program: 64)
SizeBits == 10

ModelGeom ==
  [bytesPerThread |-> LanesPerThread * kBF16Size, warpSize |-> WarpLanes,
   threadsPerBlock |-> BlockWarps * WarpLanes, maxBlocks |-> GridBlocks,
   maxIntraNodeSize |-> BufferElems * kBF16Size, uintBits |-> 32]

\* the same, with a uint32_t narrow enough for a tensor to exceed it
WrapGeom == [ModelGeom EXCEPT !.uintBits = UintBits]

\* size_t arithmetic of the kernels (unsigned, wraps)
SizeT(x) == x % (2 ^ SizeBits)

----------------------------------------------------------------------------
(* getLaunchConfig: [ok, blocks, threads]; ok = FALSE is a failed          *)
(* TORCH_CHECK.                                                            *)

\* the launch without the cap of kMaxAllReduceBlocks on the grid
getLaunchConfigUncapped(N_aligned, elemSize, g) ==
  LET numelPerThread == g.bytesPerThread \div elemSize
      numelPerWarp == numelPerThread * g.warpSize
      warpsRequired == N_aligned \div numelPerWarp
      threadsRequired == N_aligned \div numelPerThread
      blocksX == divUp(threadsRequired, g.threadsPerBlock, g)
      warpsPerBlock == divUp(warpsRequired, blocksX, g)
  IN  [ok |-> TRUE, blocks |-> blocksX,
       threads |-> Min(g.threadsPerBlock, warpsPerBlock * g.warpSize)]

getLaunchConfig(N_aligned, elemSize, g) ==
  LET numelPerThread == g.bytesPerThread \div elemSize
      numelPerWarp == numelPerThread * g.warpSize
      warpsRequired == N_aligned \div numelPerWarp
      threadsRequired == N_aligned \div numelPerThread
      blocksX == Min(divUp(threadsRequired, g.threadsPerBlock, g), g.maxBlocks)
      warpsPerBlock == divUp(warpsRequired, blocksX, g)
  IN  IF N_aligned % numelPerThread # 0 \/ N_aligned % numelPerWarp # 0
      THEN [ok |-> FALSE, blocks |-> 0, threads |-> 0]
      ELSE IF N_aligned < numelPerThread * g.threadsPerBlock
           THEN [ok |-> TRUE, blocks |-> 1,
                 threads |-> (N_aligned \div numelPerWarp) * g.warpSize]
           ELSE [ok |-> TRUE, blocks |-> blocksX,
                 threads |-> Min(g.threadsPerBlock, warpsPerBlock * g.warpSize)]

\* checkInput: TRUE when every TORCH_CHECK passes
checkInput(t, rank) ==
  /\ t.dtype = "BFloat16"
  /\ t.dense
  /\ t.cuda
  /\ t.device = rank

----------------------------------------------------------------------------
(* The host functions.  Each returns [raised, ops, alloc]: whether it      *)
(* throws, the operations it has put on the stream by then, in order, and  *)
(* whether it allocated the two-shot output, input.new_empty(N_aligned),   *)
(* of allocN elements.                                                     *)

NoOps == [raised |-> TRUE, ops |-> << >>, alloc |-> FALSE]

CopyIn(t) == [op |-> "copy_in", n |-> t.numel]

KernelOp(algo, W, t, Na, cfgL, out) ==
  [op |-> "kernel", algo |-> algo, W |-> W, N |-> t.numel, Na |-> Na,
   blocks |-> cfgL.blocks, threads |-> cfgL.threads,
   aligned |-> (Na = t.numel), out |-> out]

\* a launch with an empty grid or block is rejected by the runtime
\* (C10_CUDA_KERNEL_LAUNCH_CHECK throws)
LaunchOk(cfgL) == cfgL.blocks > 0 /\ cfgL.threads > 0

oneShotAllReduce(t, rank, worldSize, g) ==
  LET es == element_size(t.dtype)
      Na == alignUp(t.numel, numelPerWarpOf(g, es), g)
      cfgL == getLaunchConfig(Na, es, g)
  IN  IF ~checkInput(t, rank) THEN NoOps
      ELSE IF ~(Na <= g.maxIntraNodeSize \div es) THEN NoOps
      ELSE IF ~cfgL.ok THEN NoOps
      ELSE IF worldSize \in 2..8
           THEN IF LaunchOk(cfgL)
                THEN [raised |-> FALSE, alloc |-> FALSE,
                      ops |-> << CopyIn(t),
                                 KernelOp("ONE_SHOT", worldSize, t, Na, cfgL,
                                          "tensor") >>]
                ELSE [raised |-> TRUE, alloc |-> FALSE, ops |-> << CopyIn(t) >>]
           ELSE [raised |-> FALSE, alloc |-> FALSE, ops |-> << CopyIn(t) >>]

twoShotAllReduce(t, rank, worldSize, g) ==
  LET es == element_size(t.dtype)
      Na == alignUp(t.numel, worldSize * numelPerWarpOf(g, es), g)
      N_per_rank == Na \div worldSize
      cfgL == getLaunchConfig(N_per_rank, es, g)
      padded == Na # t.numel
      out == IF padded THEN "tmp" ELSE "tensor"
      back == IF padded THEN << [op |-> "copy_back", n |-> t.numel] >> ELSE << >>
  IN  IF ~checkInput(t, rank) THEN NoOps
      ELSE IF ~(Na <= g.maxIntraNodeSize \div es) THEN NoOps
      ELSE IF ~cfgL.ok THEN NoOps
      ELSE IF worldSize \in 2..8
           THEN IF LaunchOk(cfgL)
                THEN [raised |-> FALSE, alloc |-> padded, allocN |-> Na,
                      ops |-> << CopyIn(t),
                                 KernelOp("TWO_SHOT", worldSize, t, Na, cfgL, out) >>
                              \o back]
                ELSE [raised |-> TRUE, alloc |-> padded, allocN |-> Na,
                      ops |-> << CopyIn(t) >>]
           ELSE [raised |-> FALSE, alloc |-> padded, allocN |-> Na,
                 ops |-> << CopyIn(t) >> \o back]

hybridCubeMeshAllReduce(t, rank, worldSize, g) ==
  LET es == element_size(t.dtype)
      Na == alignUp(t.numel, numelPerWarpOf(g, es), g)
      cfgL == getLaunchConfig(Na, es, g)
  IN  IF ~checkInput(t, rank) THEN NoOps
      ELSE IF ~(Na <= g.maxIntraNodeSize \div es) THEN NoOps
      ELSE IF ~cfgL.ok THEN NoOps
      ELSE IF LaunchOk(cfgL)
           THEN [raised |-> FALSE, alloc |-> FALSE,
                 ops |-> << CopyIn(t),
                            KernelOp("HCM", worldSize, t, Na, cfgL, "tensor") >>]
           ELSE [raised |-> TRUE, alloc |-> FALSE, ops |-> << CopyIn(t) >>]

allReduce(t, rank, worldSize, algo, g) ==
  CASE algo = "ONE_SHOT" -> oneShotAllReduce(t, rank, worldSize, g)
    [] algo = "TWO_SHOT" -> twoShotAllReduce(t, rank, worldSize, g)
    [] algo = "HCM" -> hybridCubeMeshAllReduce(t, rank, worldSize, g)
    [] OTHER -> NoOps

----------------------------------------------------------------------------
(* getHybridCubeMesh.  nvlMesh[i][j] is the number of links from i to j.   *)
(* std::unordered_set iterates in an order the library chooses: ord[i] is  *)
(* the order in which rank i's set yields the ranks it holds.              *)

Devices == 0 .. (kMaxDevices - 1)

hcmNeighbors(nvlMesh, i) == {j \in Devices : nvlMesh[i][j] > 0}

\* the j with (neighborMasks[i] & neighborMasks[j]) == 0, ascending
hcmRelayNeighbors(nvlMesh, i) ==
  {j \in Devices : hcmNeighbors(nvlMesh, i) \cap hcmNeighbors(nvlMesh, j) = {}}

SetMin(S) == CHOOSE x \in S : \A y \in S : x <= y

\* a pass that stores j itself, not i, in hcm[j][k]
hcmFillPartnerSelf(st, i, k, ord) ==
  LET Free(j) == j \in st.neighbors[i] /\ st.hcm[j][k] = 0 - 1
      cands == SelectSeq(ord[i], Free)
      filled == IF Len(cands) > 0
                THEN [[st.hcm EXCEPT ![i][k] = Head(cands)]
                        EXCEPT ![Head(cands)][k] = Head(cands)]
                ELSE st.hcm
  IN  [hcm |-> filled,
       neighbors |-> [st.neighbors EXCEPT ![i] = @ \ {filled[i][k]}],
       ok |-> st.ok /\ filled[i][k] # 0 - 1]

\* a recognition that does not count the neighbours
hcmRecognizedUncounted(nvlMesh) ==
  \A i \in Devices : Cardinality(hcmRelayNeighbors(nvlMesh, i)) = 1

\* a relay-candidate test that accepts a rank with several candidates
hcmRecognizedAnyRelay(nvlMesh) ==
  \A i \in Devices :
     /\ Cardinality(hcmNeighbors(nvlMesh, i)) = 4
     /\ Cardinality(hcmRelayNeighbors(nvlMesh, i)) >= 1

\* the first loop: TRUE when no rank makes it return std::nullopt
hcmRecognized(nvlMesh) ==
  \A i \in Devices :
     /\ Cardinality(hcmNeighbors(nvlMesh, i)) = 4
     /\ Cardinality(hcmRelayNeighbors(nvlMesh, i)) = 1

\* a first loop that stores rank i itself in hcm[i][3]
hcmAfterRelaysSelf(nvlMesh) ==
  [hcm |-> [i \in Devices |-> [k \in 0 .. 3 |-> IF k = 3 THEN i ELSE 0 - 1]],
   neighbors |-> [i \in Devices |->
              hcmNeighbors(nvlMesh, i) \ {SetMin(hcmRelayNeighbors(nvlMesh, i))}],
   ok |-> TRUE]

\* after the first loop: hcm[i][3] filled, the relay erased from neighbors[i]
hcmAfterRelays(nvlMesh) ==
  [hcm |-> [i \in Devices |-> [k \in 0 .. 3 |->
              IF k = 3 THEN SetMin(hcmRelayNeighbors(nvlMesh, i)) ELSE 0 - 1]],
   neighbors |-> [i \in Devices |->
              hcmNeighbors(nvlMesh, i) \ {SetMin(hcmRelayNeighbors(nvlMesh, i))}],
   ok |-> TRUE]

\* one pass of the body of the second loop, for rank i and column k
hcmFill(st, i, k, ord) ==
  LET Free(j) == j \in st.neighbors[i] /\ st.hcm[j][k] = 0 - 1
      cands == SelectSeq(ord[i], Free)
      filled == IF Len(cands) > 0
                THEN [[st.hcm EXCEPT ![i][k] = Head(cands)]
                        EXCEPT ![Head(cands)][k] = i]
                ELSE st.hcm
  IN  [hcm |-> filled,
       neighbors |-> [st.neighbors EXCEPT ![i] = @ \ {filled[i][k]}],
       ok |-> st.ok /\ filled[i][k] # 0 - 1]

\* the second loop from its n-th pass on; pass n is rank n / 3, column n % 3
RECURSIVE hcmFillFrom(_, _, _)
hcmFillFrom(st, n, ord) ==
  IF n = 3 * kMaxDevices \/ ~st.ok THEN st
  ELSE hcmFillFrom(hcmFill(st, n \div 3, n % 3, ord), n + 1, ord)

\* [kind |-> "nullopt"], [kind |-> "raise"] (the TORCH_CHECK), or the table
getHybridCubeMesh(nvlMesh, ord) ==
  IF ~hcmRecognized(nvlMesh) THEN [kind |-> "nullopt"]
  ELSE LET st == hcmFillFrom(hcmAfterRelays(nvlMesh), 0, ord)
       IN  IF st.ok THEN [kind |-> "hcm", hcm |-> st.hcm] ELSE [kind |-> "raise"]

----------------------------------------------------------------------------
(* State.                                                                  *)
(*   cfg      the scenario, fixed by Init: geometry, number of ranks, each *)
(*            rank's tensor (metadata), the calls every rank makes, the    *)
(*            HCM role table                                               *)
(*   host     per rank: calls made so far, and whether the last one threw  *)
(*   stream   per rank: the CUDA stream, a queue of operations             *)
(*   tensor   per rank: the caller's memory; the tensor is its first numel *)
(*            elements, the rest is memory that follows it                 *)
(*   tmp      per rank: the output two-shot allocates when it pads         *)
(*   buffers  per rank: the PeerBuffer                                     *)
(*   oob      per rank: what the program stored past the PeerBuffer's end  *)
(*   signals  per rank: P2pState, signals[d][s][b][c] is signals<s>[b][c]  *)
(*            on device d                                                  *)
(*   blk      per rank and block of the running kernel: the phase and the  *)
(*            barrier lanes that have released and acquired in it          *)
(*   written  per rank (history): out[e] counts the stores of the current  *)
(*            collective's kernel to element e of its output; caller is    *)
(*            the set of positions of the caller's memory the device has   *)
(*            stored to; cached is the set of elements of peer-visible     *)
(*            memory the current collective's kernel stored through the    *)
(*            cache (store128) and not with a streaming store              *)
(*   sel      the selector run: its arguments and its result               *)

VARIABLES cfg, host, stream, tensor, tmp, buffers, oob, signals, blk,
          written, sel

vars == << cfg, host, stream, tensor, tmp, buffers, oob, signals, blk,
           written, sel >>

Ranks == 0 .. (cfg.nranks - 1)
Blocks == 0 .. (cfg.g.maxBlocks - 1)

\* elements of a PeerBuffer
BufElems == cfg.g.maxIntraNodeSize \div kBF16Size
\* the kernels' numelPerThread
NumelPerThread == cfg.g.bytesPerThread \div kBF16Size

\* values in memory the collective did not put there
Stale == 0 - 1000
Uninit == 0 - 5000
Foreign == 0 - 7000
Adjacent == 0 - 9000

\* rank r's element i before the collective
InputVal(r, i) == 100 * (r + 1) + i

RECURSIVE SumOver(_, _)
SumOver(f, S) ==
  IF S = {} THEN 0
  ELSE LET x == CHOOSE y \in S : TRUE IN f[x] + SumOver(f, S \ {x})

IdleBlock == [ph |-> "idle", rel |-> {}, acq |-> {}]
IdleBlocks == [b \in Blocks |-> IdleBlock]

\* the blocks of a kernel as it starts: every block is at the first barrier
StartBlocks(k) ==
  [b \in Blocks |-> IF b < k.blocks THEN [ph |-> "bar0", rel |-> {}, acq |-> {}]
                    ELSE IdleBlock]

HasOp(r, name) == Len(stream[r]) > 0 /\ Head(stream[r]).op = name

\* the stream after its head operation completed; a kernel that becomes the
\* head starts
Advance(r) ==
  LET rest == Tail(stream[r]) IN
  /\ stream' = [stream EXCEPT ![r] = rest]
  /\ blk' = [blk EXCEPT ![r] = IF Len(rest) > 0 /\ Head(rest).op = "kernel"
                               THEN StartBlocks(Head(rest)) ELSE IdleBlocks]

----------------------------------------------------------------------------
(* Memory.  A store into a PeerBuffer at or past BufElems lands in memory  *)
(* the buffer does not own; a load from there returns what the program     *)
(* stored, or, when clob, a value of whoever owns that memory.             *)

BufRead(s, idx, clob) ==
  IF idx < BufElems THEN buffers[s][idx]
  ELSE IF clob \/ idx \notin DOMAIN oob[s] THEN Foreign
  ELSE oob[s][idx]

\* w: a function from indices to the values stored there
BufStore(r, w) ==
  /\ buffers' = [buffers EXCEPT ![r] =
       [e \in DOMAIN @ |-> IF e \in DOMAIN w THEN w[e] ELSE @[e]]]
  /\ oob' = [oob EXCEPT ![r] =
       [e \in (DOMAIN @) \cup {i \in DOMAIN w : i >= BufElems} |->
          IF e \in DOMAIN w THEN w[e] ELSE @[e]]]

\* the store counts c after one more store to each element of E
Counted(c, E) == [e \in DOMAIN c |-> IF e \in E THEN c[e] + 1 ELSE c[e]]

\* a store through the kernel's output pointer: the tensor, or the padded
\* output of two-shot
OutStore(r, k, w) ==
  IF k.out = "tensor"
  THEN /\ tensor' = [tensor EXCEPT ![r] =
            [e \in DOMAIN @ |-> IF e \in DOMAIN w THEN w[e] ELSE @[e]]]
       /\ written' = [written EXCEPT ![r] =
            [out |-> Counted(@.out, DOMAIN w), caller |-> @.caller \cup DOMAIN w,
             cached |-> @.cached]]
       /\ UNCHANGED tmp
  ELSE /\ tmp' = [tmp EXCEPT ![r] =
            [e \in DOMAIN @ |-> IF e \in DOMAIN w THEN w[e] ELSE @[e]]]
       /\ written' = [written EXCEPT ![r].out = Counted(@, DOMAIN w)]
       /\ UNCHANGED tensor

----------------------------------------------------------------------------
(* The host.                                                               *)

\* rank r calls allReduce with the next call of the program
AllReduce(r) ==
  /\ host[r].pc < Len(cfg.prog)
  /\ ~host[r].raised
  /\ LET c == cfg.prog[host[r].pc + 1]
         res == allReduce(cfg.meta[r], r, c.worldSize, c.algo, cfg.g)
         q == stream[r] \o res.ops
     IN  /\ host' = [host EXCEPT ![r] = [pc |-> @.pc + 1, raised |-> res.raised]]
         /\ stream' = [stream EXCEPT ![r] = q]
         /\ tmp' = [tmp EXCEPT ![r] =
                      IF res.alloc
                      THEN [e \in 0 .. (res.allocN - 1) |-> Uninit] ELSE @]
  /\ UNCHANGED << cfg, tensor, buffers, oob, signals, blk, written, sel >>

----------------------------------------------------------------------------
(* The device: copies.                                                     *)

\* cudaMemcpyAsync(buffers[rank], input.data_ptr(), numel * element_size)
StagingCopy(r) ==
  /\ HasOp(r, "copy_in")
  /\ LET n == Head(stream[r]).n
         w == [i \in 0 .. (n - 1) |-> tensor[r][i]]
     IN  BufStore(r, w)
  /\ Advance(r)
  /\ written' = [written EXCEPT ![r].out = [e \in DOMAIN @ |-> 0],
                                 ![r].cached = {}]
  /\ UNCHANGED << cfg, host, tensor, tmp, signals, sel >>

\* cudaMemcpyAsync(input.data_ptr(), output.data_ptr(), numel * element_size);
\* what it reads past the end of the output is not the output's
CopyBack(r) ==
  /\ HasOp(r, "copy_back")
  /\ LET n == Head(stream[r]).n IN
     /\ tensor' = [tensor EXCEPT ![r] =
          [e \in DOMAIN @ |->
             IF e >= n THEN @[e]
             ELSE IF e \in DOMAIN tmp[r] THEN tmp[r][e] ELSE Foreign]]
     /\ written' = [written EXCEPT ![r].caller = @ \cup (0 .. (n - 1))]
  /\ Advance(r)
  /\ UNCHANGED << cfg, host, tmp, buffers, oob, signals, sel >>

----------------------------------------------------------------------------
(* The device: the barrier.  In a barrier phase the lanes BarLanes of a    *)
(* block each release one peer and then spin on their own counter.         *)

Kernel(r) == Head(stream[r])

IsBarrier(ph) == ph \in {"bar0", "bar1", "relay"}

\* the lanes that signal: threadIdx.x < kWorldSize; threadIdx.x < 3 and
\* threadIdx.x == 0 in the HCM kernel
BarLanes(k, ph) ==
  IF k.algo = "HCM"
  THEN IF ph = "bar0" THEN {t \in 0 .. (k.threads - 1) : t < 3}
       ELSE {t \in 0 .. (k.threads - 1) : t = 0}
  ELSE {t \in 0 .. (k.threads - 1) : t < k.W}

\* targetRank
BarTarget(k, r, ph, t) ==
  IF k.algo = "HCM"
  THEN IF ph = "bar0" THEN cfg.hcm[r][t] ELSE cfg.hcm[r][3]
  ELSE t

\* one table for both barriers of a kernel
BarTableSingle(k, ph) == 0

\* signals0 or signals1
BarTable(k, ph) == IF ph = "bar1" THEN 1 ELSE 0

\* a wait that leaves the counter as it found it
acquireKeep(d, s, b, c) ==
  /\ signals[d][s][b][c] # 0
  /\ signals' = signals

\* a release into the column of the device signalled
releaseOwnColumn(d, s, b, c) ==
  signals' = [signals EXCEPT ![d][s][b][d] = @ + 1]

\* releaseSignal(&p2pStates[targetRank]->signals[blockIdx.x][rank])
releaseSignal(d, s, b, c) ==
  signals' = [signals EXCEPT ![d][s][b][c] = @ + 1]

\* a decrement that does not wait for the counter to be non-zero
acquireNoSpin(d, s, b, c) ==
  signals' = [signals EXCEPT ![d][s][b][c] = @ - 1]

\* acquireSignal: the spin ends with the atomicCAS that finds the value it
\* read, which was not 0, and stores that value less one
acquireSignal(d, s, b, c) ==
  /\ signals[d][s][b][c] # 0
  /\ signals' = [signals EXCEPT ![d][s][b][c] = @ - 1]

Release(r, b, t) ==
  /\ HasOp(r, "kernel")
  /\ IsBarrier(blk[r][b].ph)
  /\ t \in BarLanes(Kernel(r), blk[r][b].ph) \ blk[r][b].rel
  /\ LET k == Kernel(r)
         ph == blk[r][b].ph
     IN  releaseSignal(BarTarget(k, r, ph, t), BarTable(k, ph), b, r)
  /\ blk' = [blk EXCEPT ![r][b].rel = @ \cup {t}]
  /\ UNCHANGED << cfg, host, stream, tensor, tmp, buffers, oob, written, sel >>

Acquire(r, b, t) ==
  /\ HasOp(r, "kernel")
  /\ IsBarrier(blk[r][b].ph)
  /\ t \in blk[r][b].rel \ blk[r][b].acq
  /\ LET k == Kernel(r)
         ph == blk[r][b].ph
     IN  acquireSignal(r, BarTable(k, ph), b, BarTarget(k, r, ph, t))
  /\ blk' = [blk EXCEPT ![r][b].acq = @ \cup {t}]
  /\ UNCHANGED << cfg, host, stream, tensor, tmp, buffers, oob, written, sel >>

\* __syncthreads() after the barrier: every signalling lane is through
Passed(r, b, ph) ==
  /\ HasOp(r, "kernel")
  /\ blk[r][b].ph = ph
  /\ blk[r][b].acq = BarLanes(Kernel(r), ph)

\* block b moves to phase next; the kernel completes with its last block
StepBlock(r, b, next) ==
  LET k == Kernel(r) IN
  IF next = "done" /\ \A b2 \in (0 .. (k.blocks - 1)) \ {b} : blk[r][b2].ph = "done"
  THEN Advance(r)
  ELSE /\ blk' = [blk EXCEPT ![r][b] = [ph |-> next, rel |-> {}, acq |-> {}]]
       /\ UNCHANGED stream

----------------------------------------------------------------------------
(* The barrier, a warp at a time.  The signalling lanes of a block are     *)
(* lanes of its first warp.  With eight ranks the lane-by-lane barrier is  *)
(* beyond exhaustive search, and the HCM runs take the warp's releases as  *)
(* one step and the end of its spins as the start of the loop that follows *)
(* them: a release commutes to the left of, and a successful acquire to    *)
(* the right of, every step of another block.                              *)

\* the lanes of block b of rank r that signal rank c in phase ph
LaneCount(k, r, ph, c) ==
  Cardinality({t \in BarLanes(k, ph) : BarTarget(k, r, ph, t) = c})

WarpRelease(r, b) ==
  /\ HasOp(r, "kernel")
  /\ IsBarrier(blk[r][b].ph)
  /\ blk[r][b].rel = {}
  /\ LET k == Kernel(r)
         ph == blk[r][b].ph
     IN  /\ signals' = [d \in Ranks |->
               [signals[d] EXCEPT ![BarTable(k, ph)][b][r] =
                  @ + LaneCount(k, r, ph, d)]]
         /\ blk' = [blk EXCEPT ![r][b].rel = BarLanes(k, ph)]
  /\ UNCHANGED << cfg, host, stream, tensor, tmp, buffers, oob, written, sel >>

\* every lane's spin ends: each counter is decremented once per lane on it
WarpAcquire(r, b, ph) ==
  /\ HasOp(r, "kernel")
  /\ blk[r][b].ph = ph
  /\ blk[r][b].rel # {}
  /\ LET k == Kernel(r)
         s == BarTable(k, ph)
     IN  /\ \A c \in Ranks :
              LaneCount(k, r, ph, c) > 0 => signals[r][s][b][c] >= LaneCount(k, r, ph, c)
         /\ signals' = [signals EXCEPT ![r][s][b] =
               [c \in Ranks |-> @[c] - LaneCount(k, r, ph, c)]]

----------------------------------------------------------------------------
(* The device: the loops.  One step is one block's grid-stride loop.       *)

\* the values of i the threads of block b take in
\* for (i = offset; i < lim; i += stride)
Offsets(k, b, lim) ==
  LET stride == k.threads * k.blocks * NumelPerThread IN
  {i \in 0 .. (lim - 1) :
     \E t \in 0 .. (k.threads - 1) :
        LET offset == (k.threads * b + t) * NumelPerThread
        IN  i >= offset /\ (i - offset) % stride = 0}

\* the elements of the 128-bit words at those offsets
Lanes(k, b, lim) ==
  {i + ii : i \in Offsets(k, b, lim), ii \in 0 .. (NumelPerThread - 1)}

\* srcs[ii] = buffers[(rank + ii) % kWorldSize], summed over ii
SumPeers(k, r, e) ==
  SumOver([ii \in 0 .. (k.W - 1) |-> BufRead((r + ii) % k.W, e, FALSE)],
          0 .. (k.W - 1))

\* the elements a kernel stores of a word: all of it, or with !kAligned
\* those below N
Guarded(k, E) == {e \in E : k.aligned \/ e < k.N}

OneShotLoop(r, b) ==
  /\ Passed(r, b, "bar0")
  /\ Kernel(r).algo = "ONE_SHOT"
  /\ LET k == Kernel(r)
         w == [e \in Guarded(k, Lanes(k, b, k.Na)) |-> SumPeers(k, r, e)]
     IN  OutStore(r, k, w)
  /\ StepBlock(r, b, "done")
  /\ UNCHANGED << cfg, host, buffers, oob, signals, sel >>

\* the shard elements taken from the other end of the grid: the block that
\* stores them is not the block whose index loads them
ShardElemsMirrored(k, r, b) ==
  LET N_per_rank == k.Na \div k.W
      N_start == N_per_rank * r
  IN  {N_start + x : x \in Lanes(k, k.blocks - 1 - b, N_per_rank)}

\* the elements block b of rank r reduces: N_start + i, i below N_per_rank
ShardElems(k, r, b) ==
  LET N_per_rank == k.Na \div k.W
      N_start == N_per_rank * r
  IN  {N_start + x : x \in Lanes(k, b, N_per_rank)}

\* the first loop of the two-shot kernel
ReduceScatter(r, b) ==
  /\ Passed(r, b, "bar0")
  /\ Kernel(r).algo = "TWO_SHOT"
  /\ LET k == Kernel(r)
         w == [e \in ShardElems(k, r, b) |-> SumPeers(k, r, e)]
     IN  /\ BufStore((r + 0) % k.W, w)
         /\ OutStore(r, k, w)
  /\ StepBlock(r, b, "bar1")
  /\ UNCHANGED << cfg, host, signals, sel >>

\* the offset of shard rank + ii without the reduction modulo kWorldSize
GatherIndexUnrotated(k, r, i, ii) ==
  (k.Na \div k.W) * r + i + ii * (k.Na \div k.W)

\* k = N_start + i + (srcRanks[ii] - rank) * N_per_rank, in size_t
GatherIndex(k, r, i, ii) ==
  LET N_per_rank == k.Na \div k.W
      N_start == N_per_rank * r
      srcRank == (r + ii) % k.W
  IN  SizeT(N_start + i + SizeT(SizeT(srcRank - r) * N_per_rank))

\* the second loop of the two-shot kernel
AllGather(r, b) ==
  /\ Passed(r, b, "bar1")
  /\ Kernel(r).algo = "TWO_SHOT"
  /\ LET k == Kernel(r)
         N_per_rank == k.Na \div k.W
         P == Offsets(k, b, N_per_rank) \X (1 .. (k.W - 1))
         Word(p) == {GatherIndex(k, r, p[1], p[2]) + x :
                       x \in 0 .. (NumelPerThread - 1)}
         E == UNION {Word(p) : p \in P}
         w == [e \in E |->
                 LET p == CHOOSE q \in P : e \in Word(q)
                 IN  BufRead((r + p[2]) % k.W, e, FALSE)]
     IN  OutStore(r, k, w)
  /\ StepBlock(r, b, "done")
  /\ UNCHANGED << cfg, host, buffers, oob, signals, sel >>

\* buffers[rank] + kMaxIntraNodeSize / 2: at::BFloat16* arithmetic, so the
\* offset counts elements
RelayOffset == cfg.g.maxIntraNodeSize \div 2

\* the first loop of the HCM kernel, from the end of the spins before it
HcmPartial(r, b) ==
  /\ WarpAcquire(r, b, "bar0")
  /\ Kernel(r).algo = "HCM"
  /\ LET k == Kernel(r)
         srcs == [ii \in 0 .. 3 |-> IF ii = 0 THEN r ELSE cfg.hcm[r][ii - 1]]
         sums(e) == SumOver([ii \in 0 .. 3 |-> BufRead(srcs[ii], e, FALSE)], 0 .. 3)
         w == [x \in {RelayOffset + e : e \in Lanes(k, b, k.Na)} |->
                 sums(x - RelayOffset)]
     IN  /\ BufStore(r, w)
         \* store128: a store through the cache
         /\ written' = [written EXCEPT ![r].cached = @ \cup DOMAIN w]
  /\ StepBlock(r, b, "relay")
  /\ UNCHANGED << cfg, host, tensor, tmp, sel >>

\* the second loop of the HCM kernel, from the end of the spin before it
HcmFinal(r, b) ==
  /\ WarpAcquire(r, b, "relay")
  /\ Kernel(r).algo = "HCM"
  /\ \E clob \in (IF RelayOffset + Kernel(r).Na > BufElems THEN BOOLEAN ELSE {FALSE}) :
       LET k == Kernel(r)
           relayRank == cfg.hcm[r][3]
           w == [e \in Guarded(k, Lanes(k, b, k.Na)) |->
                   BufRead(r, RelayOffset + e, clob)
                   + BufRead(relayRank, RelayOffset + e, clob)]
       IN  OutStore(r, k, w)
  /\ StepBlock(r, b, "done")
  /\ UNCHANGED << cfg, host, buffers, oob, sel >>

----------------------------------------------------------------------------
(* Scenarios.                                                              *)

\* largest world size of a fully connected run (program: 8)
MaxWorld == 3
\* most barrier lanes one run has in flight: ranks x blocks x lanes
MaxSignalLanes == 9
\* longest tensor of a run, in elements
MaxNumel == 17

EmptyMem == [e \in {} |-> 0]

\* a bf16 tensor of numel elements on device r, dense
GoodTensor(r, numel) ==
  [dtype |-> "BFloat16", dense |-> TRUE, cuda |-> TRUE, device |-> r,
   numel |-> numel]

NoHcm == [r \in {} |-> 0]

SelIdle == [state |-> "idle"]

\* device memory after construction: zeroed P2pStates (initP2pState),
\* PeerBuffers holding whatever they held, no kernel running
InitMemory(c) ==
  LET R == 0 .. (c.nranks - 1) IN
  /\ cfg = c
  /\ tensor = [r \in R |->
       [i \in 0 .. (c.callerLen - 1) |->
          IF i < c.meta[r].numel THEN InputVal(r, i) ELSE Adjacent]]
  /\ buffers = [r \in R |->
       [i \in 0 .. ((c.g.maxIntraNodeSize \div kBF16Size) - 1) |-> Stale]]
  /\ oob = [r \in R |-> EmptyMem]
  /\ signals = [d \in R |-> [s \in 0 .. 1 |->
       [b \in 0 .. (c.g.maxBlocks - 1) |-> [x \in R |-> 0]]]]
  /\ blk = [r \in R |-> [b \in 0 .. (c.g.maxBlocks - 1) |-> IdleBlock]]
  /\ written = [r \in R |->
       [out |-> [e \in 0 .. (c.callerLen - 1) |-> 0], caller |-> {},
        cached |-> {}]]

\* the state after construction: nothing called, nothing on any stream
InitWith(c) ==
  LET R == 0 .. (c.nranks - 1) IN
  /\ InitMemory(c)
  /\ host = [r \in R |-> [pc |-> 0, raised |-> FALSE]]
  /\ stream = [r \in R |-> << >>]
  /\ tmp = [r \in R |-> EmptyMem]

\* the state in which every rank has made its first call and no stream has
\* run anything yet: what AllReduce(r) leads to from InitWith(c), taken by
\* every rank r
InitLaunched(c) ==
  LET R == 0 .. (c.nranks - 1)
      res(r) == allReduce(c.meta[r], r, c.prog[1].worldSize, c.prog[1].algo, c.g)
  IN  /\ InitMemory(c)
      /\ host = [r \in R |-> [pc |-> 1, raised |-> res(r).raised]]
      /\ stream = [r \in R |-> res(r).ops]
      /\ tmp = [r \in R |->
            IF res(r).alloc THEN [e \in 0 .. (res(r).allocN - 1) |-> Uninit]
            ELSE EmptyMem]

\* W ranks, each with a tensor of N elements, all making the same calls
RunCfg(W, N, prog, hcm) ==
  LET unit == IF \E n \in 1 .. Len(prog) : prog[n].algo = "TWO_SHOT"
              THEN W * numelPerWarpOf(ModelGeom, kBF16Size)
              ELSE numelPerWarpOf(ModelGeom, kBF16Size)
      len == alignUp(N, unit, ModelGeom) IN
  [g |-> ModelGeom, nranks |-> W, meta |-> [r \in 0 .. (W - 1) |-> GoodTensor(r, N)],
   prog |-> prog, hcm |-> hcm, callerLen |-> len]

\* the lengths next to a multiple of the alignment unit, on either side
Numels ==
  {N \in 1 .. MaxNumel :
     N % numelPerWarpOf(ModelGeom, kBF16Size)
       \in {0, 1, numelPerWarpOf(ModelGeom, kBF16Size) - 1}}

AllLanes == 0 .. (ModelGeom.threadsPerBlock - 1)

\* some lane of some block of rank r releases; acquires
LaneRelease(r) == \E b \in Blocks : \E t \in AllLanes : Release(r, b, t)

LaneAcquire(r) == \E b \in Blocks : \E t \in AllLanes : Acquire(r, b, t)

----------------------------------------------------------------------------
(* One-shot all-reduce: every rank calls oneShotAllReduce once.            *)

\* the launch of a kernel over a window of Na elements
LaunchOf(Na) == getLaunchConfig(Na, kBF16Size, ModelGeom)

InitOneShot ==
  \E W \in 2 .. MaxWorld : \E N \in Numels :
     /\ sel = SelIdle
     /\ W * W * LaunchOf(alignUp(N, numelPerWarpOf(ModelGeom, kBF16Size),
                                 ModelGeom)).blocks <= MaxSignalLanes
     /\ InitWith(RunCfg(W, N, << [algo |-> "ONE_SHOT", worldSize |-> W] >>, NoHcm))

NextOneShot ==
  \/ \E r \in Devices : r \in Ranks /\ AllReduce(r)
  \/ \E r \in Devices : r \in Ranks /\ StagingCopy(r)
  \/ \E r \in Devices : r \in Ranks /\ LaneRelease(r)
  \/ \E r \in Devices : r \in Ranks /\ LaneAcquire(r)
  \/ \E r \in Devices : r \in Ranks /\ \E b \in Blocks : OneShotLoop(r, b)

SpecOneShot == InitOneShot /\ [][NextOneShot]_vars

\* every call returned and every stream drained
Finished ==
  \A r \in Ranks : host[r].pc = Len(cfg.prog) /\ ~host[r].raised /\ stream[r] = << >>

\* the sum of the ranks' element i
Total(i) == SumOver([r \in Ranks |-> InputVal(r, i)], Ranks)

Reduced(r) == \A i \in 0 .. (cfg.meta[r].numel - 1) : tensor[r][i] = Total(i)

\* in a run of one call per rank: rank c's staging copy is complete
Staged(c) == host[c].pc >= 1 /\ ~HasOp(c, "copy_in")

\* C1: one-shot all-reduce.  Under every interleaving, a block is through
\* the barrier, and so reads its peers' buffers, only when every rank's
\* staging copy is complete; and once every rank's kernel has finished,
\* element i of every rank's tensor is the sum of the ranks' original
\* elements i, for every i < N (so all ranks hold the same result).
C1_OneShotSums ==
  /\ \A r \in Ranks : \A b \in Blocks :
        Passed(r, b, "bar0") => \A c \in Ranks : Staged(c)
  /\ Finished => \A r \in Ranks : Reduced(r)

\* C1's case: the largest world, a length that is no multiple of the
\* alignment unit, every kernel finished with the sums in place
C1_Witness ==
  /\ Finished
  /\ cfg.nranks = MaxWorld
  /\ cfg.meta[0].numel % numelPerWarpOf(cfg.g, kBF16Size) # 0
  /\ cfg.prog[1].algo = "ONE_SHOT"
  /\ \A r \in Ranks : Reduced(r) /\ tensor[r] = tensor[0]

----------------------------------------------------------------------------
(* Two-shot all-reduce: every rank calls twoShotAllReduce once.            *)

InitTwoShot ==
  \E W \in 2 .. MaxWorld : \E N \in Numels :
     LET Na == alignUp(N, W * numelPerWarpOf(ModelGeom, kBF16Size), ModelGeom) IN
     /\ sel = SelIdle
     /\ Na <= BufferElems
     /\ W * W * LaunchOf(Na \div W).blocks <= MaxSignalLanes
     /\ InitWith(RunCfg(W, N, << [algo |-> "TWO_SHOT", worldSize |-> W] >>, NoHcm))

NextTwoShot ==
  \/ \E r \in Devices : r \in Ranks /\ AllReduce(r)
  \/ \E r \in Devices : r \in Ranks /\ StagingCopy(r)
  \/ \E r \in Devices : r \in Ranks /\ LaneRelease(r)
  \/ \E r \in Devices : r \in Ranks /\ LaneAcquire(r)
  \/ \E r \in Devices : r \in Ranks /\ \E b \in Blocks : ReduceScatter(r, b)
  \/ \E r \in Devices : r \in Ranks /\ \E b \in Blocks : AllGather(r, b)
  \/ \E r \in Devices : r \in Ranks /\ CopyBack(r)

SpecTwoShot == InitTwoShot /\ [][NextTwoShot]_vars

\* what rank r's n-th call puts on its stream, and the kernel of its call in
\* a run of one call per rank
CallOf(r, n) ==
  allReduce(cfg.meta[r], r, cfg.prog[n].worldSize, cfg.prog[n].algo, cfg.g)

KernelOf(r) == CallOf(r, 1).ops[2]

\* C2: two-shot all-reduce.  Each rank reduces exactly its own shard
\* [rank * N_per_rank, (rank + 1) * N_per_rank); the all-gather offset k,
\* computed in unsigned arithmetic, is position i of shard srcRank for each of
\* the other W - 1 shards; once every rank has finished (kernel, and copy-back
\* when the length was padded) every position of the kernel's output has been
\* stored exactly once and element i of every rank's tensor is the sum of the
\* ranks' original elements i, for every i < N.
C2_TwoShotSums ==
  /\ \A r \in Ranks : HasOp(r, "kernel") =>
        LET k == Kernel(r)
            N_per_rank == k.Na \div k.W
        IN  /\ UNION {ShardElems(k, r, b) : b \in 0 .. (k.blocks - 1)}
                 = (r * N_per_rank) .. ((r + 1) * N_per_rank - 1)
            /\ \A b \in 0 .. (k.blocks - 1) :
                 \A i \in Offsets(k, b, N_per_rank) : \A ii \in 1 .. (k.W - 1) :
                    GatherIndex(k, r, i, ii) = ((r + ii) % k.W) * N_per_rank + i
  /\ Finished =>
        \A r \in Ranks :
           /\ Reduced(r)
           /\ \A e \in 0 .. (KernelOf(r).Na - 1) : written[r].out[e] = 1

\* C2's case: the largest world, a padded length, every rank finished after
\* its copy-back with the sums in place
C2_Witness ==
  /\ Finished
  /\ cfg.nranks = MaxWorld
  /\ cfg.prog[1].algo = "TWO_SHOT"
  /\ KernelOf(0).Na # cfg.meta[0].numel
  /\ \A r \in Ranks : Reduced(r) /\ tmp[r] # EmptyMem

----------------------------------------------------------------------------
(* Hybrid cube mesh all-reduce: the eight ranks of a DGX-1 mesh call       *)
(* hybridCubeMeshAllReduce once.                                           *)

\* two fully connected quads, each rank linked to its twin in the other
DgxMesh ==
  [i \in Devices |-> [j \in Devices |->
     IF i # j /\ (i \div 4 = j \div 4 \/ j = (i + 4) % kMaxDevices) THEN 1 ELSE 0]]

\* the sets yield the highest rank first
Descending == [i \in Devices |-> [n \in 1 .. kMaxDevices |-> kMaxDevices - n]]

\* the lengths of the HCM runs: one alignment unit, and one element less
HcmNumels ==
  {numelPerWarpOf(ModelGeom, kBF16Size) - 1, numelPerWarpOf(ModelGeom, kBF16Size)}

InitHcm ==
  \E N \in HcmNumels :
     sel = SelIdle /\ InitWith(RunCfg(kMaxDevices, N, << [algo |-> "HCM", worldSize |-> kMaxDevices] >>,
                     getHybridCubeMesh(DgxMesh, Descending).hcm))

NextHcm ==
  \/ \E r \in Devices : r \in Ranks /\ AllReduce(r)
  \/ \E r \in Devices : r \in Ranks /\ StagingCopy(r)
  \/ \E r \in Devices : r \in Ranks /\ \E b \in Blocks : WarpRelease(r, b)
  \/ \E r \in Devices : r \in Ranks /\ \E b \in Blocks : HcmPartial(r, b)
  \/ \E r \in Devices : r \in Ranks /\ \E b \in Blocks : HcmFinal(r, b)

SpecHcm == InitHcm /\ [][NextHcm]_vars

\* C3: HCM all-reduce.  Once every rank's kernel has finished, element i of
\* every rank's tensor is the sum of the eight ranks' original elements i,
\* for every i < N.
C3_HcmSums == Finished => \A r \in Ranks : Reduced(r)

\* the caller's memory of a rank from its tensor's end on is as it was, and
\* the device stored to none of it
TailKept(r) ==
  /\ written[r].caller \subseteq 0 .. (cfg.meta[r].numel - 1)
  /\ \A e \in cfg.meta[r].numel .. (cfg.callerLen - 1) : tensor[r][e] = Adjacent

\* C4: tail handling.  For a length N that is no multiple of the alignment
\* unit, after the collective the caller's memory holds the sums in [0, N)
\* and nothing at N or beyond, up to N_aligned, was written by the kernel or
\* by the copy-back.
C4_TailHandling ==
  Finished =>
    \A r \in Ranks :
       cfg.meta[r].numel % numelPerWarpOf(cfg.g, kBF16Size) # 0
         => Reduced(r) /\ TailKept(r)

\* the frame half of C4 alone
C4_Frame ==
  \A r \in Ranks :
     cfg.meta[r].numel % numelPerWarpOf(cfg.g, kBF16Size) # 0 => TailKept(r)

----------------------------------------------------------------------------
(* Sequences of collectives: every rank makes the same calls, one after    *)
(* the other on its stream, with nothing between them.  The fully          *)
(* connected runs step a lane at a time, the HCM run a warp at a time.     *)

\* most calls a rank makes in a run
MaxCalls == 2
\* largest world size of a run of more than one call
MaxSeqWorld == 2

HcmRun == \E n \in 1 .. Len(cfg.prog) : cfg.prog[n].algo = "HCM"

RECURSIVE Progs(_, _)
\* the sequences of 1 to n calls of one-shot and two-shot with W ranks
Progs(W, n) ==
  IF n = 0 THEN {}
  ELSE LET one == {<< [algo |-> a, worldSize |-> W] >> : a \in {"ONE_SHOT", "TWO_SHOT"}}
       IN  one \cup {p \o q : p \in Progs(W, n - 1), q \in one}

\* the length of the fully connected runs of more than one call
SeqNumel == numelPerWarpOf(ModelGeom, kBF16Size) - 1

\* every call of the run is accepted and launches a kernel, and the run has
\* no more barrier lanes than MaxSignalLanes
Fits(c) ==
  /\ \A n \in 1 .. Len(c.prog) :
        LET res == allReduce(c.meta[0], 0, c.prog[n].worldSize, c.prog[n].algo, c.g)
        IN  /\ ~res.raised
            /\ Len(res.ops) >= 2
            /\ c.nranks * c.nranks * res.ops[2].blocks * Len(c.prog) <= MaxSignalLanes

InitSeq ==
  /\ sel = SelIdle
  /\ \/ \E W \in 2 .. MaxSeqWorld : \E prog \in Progs(W, MaxCalls) :
          /\ Fits(RunCfg(W, SeqNumel, prog, NoHcm))
          /\ InitWith(RunCfg(W, SeqNumel, prog, NoHcm))
     \/ InitWith(RunCfg(kMaxDevices, SeqNumel,
                         << [algo |-> "HCM", worldSize |-> kMaxDevices] >>,
                         getHybridCubeMesh(DgxMesh, Descending).hcm))

NextSeq ==
  \/ \E r \in Devices : r \in Ranks /\ AllReduce(r)
  \/ \E r \in Devices : r \in Ranks /\ StagingCopy(r)
  \/ \E r \in Devices : r \in Ranks /\ CopyBack(r)
  \/ \E r \in Devices : r \in Ranks /\ ~HcmRun /\ LaneRelease(r)
  \/ \E r \in Devices : r \in Ranks /\ ~HcmRun /\ LaneAcquire(r)
  \/ \E r \in Devices : r \in Ranks /\ HcmRun /\ \E b \in Blocks : WarpRelease(r, b)
  \/ \E r \in Devices : r \in Ranks /\ \E b \in Blocks : OneShotLoop(r, b)
  \/ \E r \in Devices : r \in Ranks /\ \E b \in Blocks : ReduceScatter(r, b)
  \/ \E r \in Devices : r \in Ranks /\ \E b \in Blocks : AllGather(r, b)
  \/ \E r \in Devices : r \in Ranks /\ \E b \in Blocks : HcmPartial(r, b)
  \/ \E r \in Devices : r \in Ranks /\ \E b \in Blocks : HcmFinal(r, b)

SpecSeq == InitSeq /\ [][NextSeq]_vars

AllSignals ==
  {signals[d][s][b][c] : d \in Ranks, s \in 0 .. 1, b \in Blocks, c \in Ranks}

\* C5: SignalRing restoration.  From all-zero tables, no counter of signals0
\* or signals1 on any device ever goes below zero, and once all ranks have
\* completed the whole sequence of collectives every counter is zero again.
C5_SignalsRestored ==
  /\ \A x \in AllSignals : x >= 0
  /\ Finished => AllSignals = {0}

\* C5's case: a one-shot followed by a two-shot, both completed by all ranks
C5_Witness ==
  /\ Finished
  /\ Len(cfg.prog) = MaxCalls
  /\ cfg.prog[1].algo = "ONE_SHOT"
  /\ cfg.prog[Len(cfg.prog)].algo = "TWO_SHOT"
  /\ AllSignals = {0}

----------------------------------------------------------------------------
(* Fair runs of one collective, from the point at which every rank has     *)
(* launched it.  The devices run every resident block and the streams run  *)
(* every operation at their head: no block whose next step is possible     *)
(* waits for ever.  A possible step of a block stays possible until the     *)
(* block takes it (only the block itself lowers the counters it spins on), *)
(* so this is no more than weak fairness of the next-state relation.       *)

InitLive ==
  /\ sel = SelIdle
  /\ \/ \E W \in 2 .. MaxWorld : \E a \in {"ONE_SHOT", "TWO_SHOT"} :
          /\ Fits(RunCfg(W, SeqNumel, << [algo |-> a, worldSize |-> W] >>, NoHcm))
          /\ InitLaunched(RunCfg(W, SeqNumel, << [algo |-> a, worldSize |-> W] >>, NoHcm))
     \/ InitLaunched(RunCfg(kMaxDevices, SeqNumel,
                             << [algo |-> "HCM", worldSize |-> kMaxDevices] >>,
                             getHybridCubeMesh(DgxMesh, Descending).hcm))

NextLive ==
  \/ \E r \in Devices : r \in Ranks /\ StagingCopy(r)
  \/ \E r \in Devices : r \in Ranks /\ CopyBack(r)
  \/ \E r \in Devices : r \in Ranks /\ ~HcmRun /\ LaneRelease(r)
  \/ \E r \in Devices : r \in Ranks /\ ~HcmRun /\ LaneAcquire(r)
  \/ \E r \in Devices : r \in Ranks /\ HcmRun /\ \E b \in Blocks : WarpRelease(r, b)
  \/ \E r \in Devices : r \in Ranks /\ \E b \in Blocks : OneShotLoop(r, b)
  \/ \E r \in Devices : r \in Ranks /\ \E b \in Blocks : ReduceScatter(r, b)
  \/ \E r \in Devices : r \in Ranks /\ \E b \in Blocks : AllGather(r, b)
  \/ \E r \in Devices : r \in Ranks /\ \E b \in Blocks : HcmPartial(r, b)
  \/ \E r \in Devices : r \in Ranks /\ \E b \in Blocks : HcmFinal(r, b)

SpecLive == InitLive /\ [][NextLive]_vars /\ WF_vars(NextLive)

\* the barrier block b of rank r is at in a run of one call: 0 or 1; 2 once
\* it is through its last barrier, and 0 - 1 before its kernel starts
BlockAt(r, b) ==
  IF host[r].pc = 0 \/ HasOp(r, "copy_in") THEN 0 - 1
  ELSE IF HasOp(r, "kernel")
       THEN (IF blk[r][b].ph = "bar0" THEN 0
             ELSE IF blk[r][b].ph = "done" THEN 2 ELSE 1)
       ELSE 2

\* the phase of a kernel's n-th barrier
BarrierPhase(k, n) ==
  IF n = 0 THEN "bar0" ELSE IF k.algo = "HCM" THEN "relay" ELSE "bar1"

Barriers(k) == IF k.algo = "ONE_SHOT" THEN {0} ELSE {0, 1}

\* lane t of block b of rank r is through its acquire of barrier n
LanePassed(r, b, n, t) ==
  BlockAt(r, b) > n \/ (BlockAt(r, b) = n /\ t \in blk[r][b].acq)

\* block b of rank c has issued its release of barrier n to rank r
HasReleased(c, b, n, r) ==
  LET k == KernelOf(c)
      ph == BarrierPhase(k, n)
  IN  \E t \in BarLanes(k, ph) :
         /\ BarTarget(k, c, ph, t) = r
         /\ BlockAt(c, b) > n \/ (BlockAt(c, b) = n /\ t \in blk[c][b].rel)

\* a lane is through a barrier for block b only after the peer it waits on
\* has issued the matching release for block b
BarrierOrder ==
  \A r \in Ranks :
     LET k == KernelOf(r) IN
     \A b \in 0 .. (k.blocks - 1) : \A n \in Barriers(k) :
        \A t \in BarLanes(k, BarrierPhase(k, n)) :
           LanePassed(r, b, n, t) =>
             HasReleased(BarTarget(k, r, BarrierPhase(k, n), t), b, n, r)

\* C6: barrier liveness.  When every rank launches the same kernel on zeroed
\* signal tables, then under fair scheduling every spin ends and every
\* rank's kernel finishes, for the one-shot barrier, the two two-shot
\* barriers and the HCM neighbour and relay barriers; and a rank is through a
\* barrier for block b only after every peer it waits on has issued the
\* matching release for block b.  Every step takes an operation off a
\* stream, adds a lane to those that released or acquired, or moves a block
\* to its next phase, so no run returns to a state; a fair run therefore
\* ends, and it ends with every kernel finished when some step is possible
\* in every state in which a rank has not finished.
C6_BarrierLiveness == BarrierOrder /\ (Finished \/ ENABLED NextLive)

\* C6's case: a rank is through the second two-shot barrier while a peer is
\* still spinning in it
C6_Witness ==
  /\ cfg.prog[1].algo = "TWO_SHOT"
  /\ \E r \in Ranks : \E c \in Ranks :
        /\ BlockAt(r, 0) = 2
        /\ HasOp(c, "kernel") /\ blk[c][0].ph = "bar1"
        /\ blk[c][0].rel # {} /\ blk[c][0].acq # blk[c][0].rel

----------------------------------------------------------------------------
(* The selector, with the program's constants: one call of                 *)
(* selectAllReduceAlgo on a tensor of some dtype and length.               *)

\* lengths on either side of the thresholds and of the size cap, counted in
\* elements and in bytes of bf16
SelNumels ==
  LET at == {kOneShotThreshBytes \div kBF16Size, kOneShotThreshBytes,
             kTwoShotThreshBytes \div kBF16Size, kTwoShotThreshBytes,
             kMaxIntraNodeSize \div kBF16Size}
  IN  {1, (300 * 1024) \div kBF16Size} \cup at \cup {n + 1 : n \in at}

SelWorlds == {2, 4, kMaxDevices}

NoRun ==
  [g |-> RealGeom, nranks |-> 0, meta |-> << >>, prog |-> << >>, hcm |-> NoHcm,
   callerLen |-> 0]

InitSelect ==
  /\ InitWith(NoRun)
  /\ \E d \in DTypes : \E n \in SelNumels : \E t \in Topologies :
       \E w \in SelWorlds :
          sel = [state |-> "called", dtype |-> d, numel |-> n, topology |-> t,
                 worldSize |-> w]

Select ==
  /\ sel.state = "called"
  /\ sel' = [state |-> "done", dtype |-> sel.dtype, numel |-> sel.numel,
             topology |-> sel.topology, worldSize |-> sel.worldSize,
             result |-> selectAllReduceAlgo(sel.dtype, sel.numel, sel.topology,
                                            sel.worldSize)]
  /\ UNCHANGED << cfg, host, stream, tensor, tmp, buffers, oob, signals, blk,
                  written >>

NextSelect == Select

SpecSelect == InitSelect /\ [][NextSelect]_vars

\* the payload in bytes after alignment to unit elements
AlignedBytes(dtype, numel, unit) ==
  (((numel + unit - 1) \div unit) * unit) * element_size(dtype)

\* the algorithm the thresholds give when they are read as bytes
ByBytes(dtype, numel, topology, worldSize) ==
  LET bytes == AlignedBytes(dtype, numel, numelPerWarpOf(RealGeom, element_size(dtype)))
  IN  IF topology = "HYBRID_CUBE_MESH" /\ worldSize = 8 /\ bytes <= 256 * 1024
      THEN "HCM"
      ELSE IF topology = "FULLY_CONNECTED" /\ bytes <= 256 * 1024
      THEN "ONE_SHOT"
      ELSE IF topology = "FULLY_CONNECTED" /\ bytes <= 10 * 1024 * 1024
      THEN "TWO_SHOT"
      ELSE "NONE"

WithinCap(dtype, numel) ==
  dtype = "BFloat16" /\ numel * element_size(dtype) <= kMaxIntraNodeSize

\* C7: selector thresholds are in bytes.  For a bf16 input within the size
\* cap the selector returns HCM on a hybrid cube mesh (W = 8) with at most
\* 256 KiB of aligned payload, OneShot when fully connected with at most
\* 256 KiB, TwoShot when fully connected with more than 256 KiB and at most
\* 10 MiB, and None in every other case.
C7_ThresholdsInBytes ==
  (/\ sel.state = "done"
   /\ WithinCap(sel.dtype, sel.numel)
   /\ sel.topology = "HYBRID_CUBE_MESH" => sel.worldSize = 8)
    => sel.result = ByBytes(sel.dtype, sel.numel, sel.topology, sel.worldSize)

\* C8: the selector is total and defaults to None.  It returns one of None,
\* OneShot, TwoShot, HCM without raising; None whenever the dtype is not
\* bf16 or the byte size exceeds kMaxIntraNodeSize, whenever the topology is
\* unsupported, and whenever the topology is a hybrid cube mesh with a world
\* size other than 8; and a hybrid cube mesh never yields OneShot or TwoShot.
C8_SelectorTotal ==
  sel.state = "done" =>
    /\ sel.result \in AllReduceAlgos
    /\ ~WithinCap(sel.dtype, sel.numel) => sel.result = "NONE"
    /\ sel.topology = "UNKNOWN" => sel.result = "NONE"
    /\ (sel.topology = "HYBRID_CUBE_MESH" /\ sel.worldSize # 8)
         => sel.result = "NONE"
    /\ sel.topology = "HYBRID_CUBE_MESH"
         => sel.result \notin {"ONE_SHOT", "TWO_SHOT"}

\* C8 with the raise left out: every part of it but totality
C8_ApartFromRaise ==
  (sel.state = "done" /\ sel.result # "RAISE") => C8_SelectorTotal

----------------------------------------------------------------------------
(* The dispatcher: one rank calls allReduce with some tensor, world size   *)
(* and algorithm, and its stream runs the copies the call put on it.  A    *)
(* kernel the call launched stays at the head of the stream: its steps are *)
(* those of the runs above.  uint32_t is UintBits wide here, so that a     *)
(* tensor can have more elements than it holds.                            *)

\* tensor lengths: below and at one alignment unit, past the PeerBuffer, and
\* on either side of the largest uint32_t
DispatchNumels ==
  {numelPerWarpOf(WrapGeom, kBF16Size) - 1, numelPerWarpOf(WrapGeom, kBF16Size),
   BufferElems + numelPerWarpOf(WrapGeom, kBF16Size),
   2 ^ UintBits - 1, 2 ^ UintBits + 1}

DispatchWorlds == {1, 2, kMaxDevices, kMaxDevices + 1}

DispatchTensors ==
  [dtype : DTypes, dense : BOOLEAN, cuda : BOOLEAN, device : {0, 1},
   numel : DispatchNumels]

DispatchCfg(t, W, algo) ==
  [g |-> WrapGeom, nranks |-> 1, meta |-> [r \in {0} |-> t],
   prog |-> << [algo |-> algo, worldSize |-> W] >>, hcm |-> NoHcm,
   callerLen |-> t.numel]

InitDispatch ==
  /\ sel = SelIdle
  /\ \E t \in DispatchTensors : \E W \in DispatchWorlds :
       \E algo \in AllReduceAlgos : InitWith(DispatchCfg(t, W, algo))

NextDispatch ==
  \/ \E r \in Devices : r \in Ranks /\ AllReduce(r)
  \/ \E r \in Devices : r \in Ranks /\ StagingCopy(r)
  \/ \E r \in Devices : r \in Ranks /\ CopyBack(r)

SpecDispatch == InitDispatch /\ [][NextDispatch]_vars

\* the call of the run has been made
Called(r) == host[r].pc = 1

\* nothing the call could have touched has changed: nothing on the stream,
\* the PeerBuffer, the signal tables and the caller's memory as they were
Untouched(r) ==
  /\ stream[r] = << >>
  /\ \A e \in DOMAIN buffers[r] : buffers[r][e] = Stale
  /\ oob[r] = EmptyMem
  /\ AllSignals = {0}
  /\ \A e \in DOMAIN tensor[r] : tensor[r][e] = InputVal(r, e)
  /\ written[r].caller = {}

\* every check of the tensor passes, the length taken as it is
ValidTensor(r) ==
  LET t == cfg.meta[r]
      c == cfg.prog[1]
      unit == IF c.algo = "TWO_SHOT"
              THEN c.worldSize * numelPerWarpOf(cfg.g, kBF16Size)
              ELSE numelPerWarpOf(cfg.g, kBF16Size)
  IN  /\ checkInput(t, r)
      /\ AlignedBytes(t.dtype, t.numel, unit) <= cfg.g.maxIntraNodeSize

\* C9: the dispatcher rejects bad world sizes.  allReduce called with HCM
\* and a world size other than 8, or with any algorithm and a world size
\* outside 2..8, raises, and neither the staging copy nor a kernel launch is
\* performed.
C9_RejectsBadWorldSize ==
  \A r \in Ranks :
     LET c == cfg.prog[1] IN
     (/\ Called(r)
      /\ c.algo # "NONE"
      /\ ValidTensor(r)
      /\ \/ c.algo = "HCM" /\ c.worldSize # 8
         \/ c.worldSize \notin 2 .. 8)
       => host[r].raised /\ Untouched(r)

\* a call that has to be refused was refused, and left no trace
Refused(r) ==
  (Called(r) /\ (cfg.prog[1].algo = "NONE" \/ ~ValidTensor(r)))
    => host[r].raised /\ Untouched(r)

\* C10: validation precedes every effect.  allReduce called with a dtype
\* other than bf16, a buffer that is not dense, a tensor on a device other
\* than rank, an aligned length of more than kMaxIntraNodeSize bytes, or
\* with the algorithm None, raises before the staging copy and before any
\* kernel launch, and leaves the PeerBuffer, the signal tables and the
\* caller's memory unchanged.
C10_ValidationFirst == \A r \in Ranks : Refused(r)

\* C10 for the tensors whose aligned length uint32_t holds
C10_WithoutWrap ==
  \A r \in Ranks :
     cfg.meta[r].numel + numelPerWarpOf(cfg.g, kBF16Size) * (kMaxDevices + 1)
         < 2 ^ UintBits
       => Refused(r)

----------------------------------------------------------------------------
(* The topology analyzer: one call of getHybridCubeMesh on an adjacency    *)
(* matrix.  The matrices are those the link discovery can produce:         *)
(* symmetric, no rank linked to itself.  The neighbour sets are            *)
(* std::unordered_set, whose iteration order the library chooses; the runs *)
(* take the orders Order(s, d, t).                                          *)

\* the permutation that exchanges a and b
Swap(a, b) == [x \in Devices |-> IF x = a THEN b ELSE IF x = b THEN a ELSE x]

\* the mesh with its ranks renamed by p
Relabel(mesh, p) == [i \in Devices |-> [j \in Devices |-> mesh[p[i]][p[j]]]]

\* the mesh with n links between a and b
WithLink(mesh, a, b, n) ==
  [i \in Devices |-> [j \in Devices |->
     IF (i = a /\ j = b) \/ (i = b /\ j = a) THEN n ELSE mesh[i][j]]]

\* each rank linked to the next around a ring
Ring ==
  [i \in Devices |-> [j \in Devices |->
     IF j = (i + 1) % kMaxDevices \/ i = (j + 1) % kMaxDevices THEN 1 ELSE 0]]

FullMesh == [i \in Devices |-> [j \in Devices |-> IF i # j THEN 1 ELSE 0]]

\* four ranks, fully connected; the other four are not populated
QuadMesh ==
  [i \in Devices |-> [j \in Devices |-> IF i # j /\ i < 4 /\ j < 4 THEN 1 ELSE 0]]

\* every even rank linked to every odd rank
Bipartite ==
  [i \in Devices |-> [j \in Devices |-> IF (i + j) % 2 = 1 THEN 1 ELSE 0]]

\* ranks at distance 1 or 2 around a ring
Circulant ==
  [i \in Devices |-> [j \in Devices |->
     IF (i - j) % kMaxDevices \in {1, 2, kMaxDevices - 2, kMaxDevices - 1}
     THEN 1 ELSE 0]]

\* the mesh in which ranks a and b of the first quad are linked to each
\* other's twin in the second quad, and not to each other
Twist(mesh, a, b) ==
  WithLink(WithLink(WithLink(WithLink(mesh, a, b, 0), a + 4, b + 4, 0),
                    a, b + 4, 1), a + 4, b, 1)

Meshes ==
  {Relabel(DgxMesh, Swap(a, b)) : a \in Devices, b \in Devices}
    \cup {Twist(DgxMesh, 0, b) : b \in 1 .. 3}
    \cup {Twist(Twist(DgxMesh, 0, 1), 2, 3), Twist(Twist(DgxMesh, 0, 1), 1, 2)}
    \cup {WithLink(DgxMesh, 0, b, IF DgxMesh[0][b] > 0 THEN 0 ELSE 2) :
            b \in Devices \ {0}}
    \cup {WithLink(DgxMesh, 0, 1, 2)}
    \cup {Ring, FullMesh, QuadMesh, Bipartite, Circulant}

\* rank i's sets yield the ranks from s + t * i on, upwards (d = 1) or
\* downwards (d = kMaxDevices - 1)
Order(s, d, t) ==
  [i \in Devices |-> [n \in 1 .. kMaxDevices |->
     (s + t * i + d * (n - 1)) % kMaxDevices]]

Orders ==
  {Order(s, d, t) : s \in Devices, d \in {1, kMaxDevices - 1}, t \in {0, 1}}

InitMesh ==
  /\ InitWith(NoRun)
  /\ \E m \in Meshes : \E o \in Orders :
        sel = [state |-> "mesh", nvlMesh |-> m, ord |-> o]

\* the call of getHybridCubeMesh
Analyze ==
  /\ sel.state = "mesh"
  /\ sel' = [state |-> "table", nvlMesh |-> sel.nvlMesh, ord |-> sel.ord,
             result |-> getHybridCubeMesh(sel.nvlMesh, sel.ord)]
  /\ UNCHANGED << cfg, host, stream, tensor, tmp, buffers, oob, signals, blk,
                  written >>

NextMesh == Analyze

SpecMesh == InitMesh /\ [][NextMesh]_vars

\* getHybridCubeMesh returned a table
Returned == sel.state = "table" /\ sel.result.kind = "hcm"

\* the ranks whose neighbour mask is disjoint from x's
Disjoint(x) == hcmRelayNeighbors(sel.nvlMesh, x)

\* C11: the relay is unique and involutive.  Whenever getHybridCubeMesh
\* returns a table, every rank x has exactly one rank whose neighbour mask is
\* disjoint from x's, that rank is table[x][3], and table[table[x][3]][3] = x.
C11_RelayInvolutive ==
  Returned =>
    \A x \in Devices :
       /\ Cardinality(Disjoint(x)) = 1
       /\ Disjoint(x) = {sel.result.hcm[x][3]}
       /\ sel.result.hcm[sel.result.hcm[x][3]][3] = x

\* C11's case: a table was returned for a mesh whose relays are not those of
\* the mesh as it is usually numbered
C11_Witness ==
  /\ Returned
  /\ sel.result.hcm[0][3] # 4
  /\ sel.result.hcm[sel.result.hcm[0][3]][3] = 0

C13_GreedySucceeds ==
  (sel.state = "table" /\ hcmRecognized(sel.nvlMesh)) => sel.result.kind = "hcm"

----------------------------------------------------------------------------
(* The greedy loop of getHybridCubeMesh, a pass at a time, on a mesh that   *)
(* passed the recognition checks.  A pass is one (i, k) of the second      *)
(* loop.  Rank i's neighbour set yields its three ranks in some order,     *)
(* fixed when the loop reaches rank i: erasing from a std::unordered_set   *)
(* does not reorder what remains.                                          *)

\* the orders in which the ranks of S can be gone through
Perms(S) ==
  {o \in [1 .. Cardinality(S) -> S] : \A x \in S : \E n \in DOMAIN o : o[n] = x}

InitGreedy ==
  /\ InitWith(NoRun)
  /\ \E m \in Meshes :
        /\ hcmRecognized(m)
        /\ sel = [state |-> "fill", nvlMesh |-> m, st |-> hcmAfterRelays(m),
                  pass |-> 0, ord |-> << >>, replaced |-> FALSE]

\* one pass of the second loop; the function returns after the last pass and
\* raises at a failed TORCH_CHECK
FillPass ==
  /\ sel.state = "fill"
  /\ LET i == sel.pass \div 3
         k == sel.pass % 3
     IN  \E o \in (IF k = 0 THEN Perms(sel.st.neighbors[i]) ELSE {sel.ord}) :
            LET st == hcmFill(sel.st, i, k, [x \in Devices |-> o])
                rep == \/ sel.replaced
                       \/ sel.st.hcm[i][k] \notin {0 - 1, st.hcm[i][k]}
                fin(res) == [state |-> "table", nvlMesh |-> sel.nvlMesh, ord |-> o,
                             replaced |-> rep, result |-> res]
            IN  sel' = IF ~st.ok THEN fin([kind |-> "raise"])
                       ELSE IF sel.pass + 1 = 3 * kMaxDevices
                       THEN fin([kind |-> "hcm", hcm |-> st.hcm])
                       ELSE [sel EXCEPT !.st = st, !.pass = @ + 1, !.ord = o,
                                        !.replaced = rep]
  /\ UNCHANGED << cfg, host, stream, tensor, tmp, buffers, oob, signals, blk,
                  written >>

NextGreedy == FillPass

SpecGreedy == InitGreedy /\ [][NextGreedy]_vars

\* row x of the returned table, as a set, and its first three entries
Row(x) == {sel.result.hcm[x][k] : k \in 0 .. 3}

Direct(x) == {sel.result.hcm[x][k] : k \in 0 .. 2}

NotHcm ==
  \E x \in Devices :
     \/ Cardinality(hcmNeighbors(sel.nvlMesh, x)) # 4
     \/ Cardinality(Disjoint(x)) # 1

\* C15: meshes that are no hybrid cube mesh are rejected without a table.
\* getHybridCubeMesh returns std::nullopt, and does not raise, whenever some
\* rank has a neighbour count other than 4 (a ring, a full mesh, a mesh with
\* fewer than 8 populated ranks) or has no rank, or more than one rank, with a
\* disjoint neighbour mask.
C15_RejectsNonHcm ==
  (sel.state = "table" /\ NotHcm) => sel.result.kind = "nullopt"

\* C15's case: the complete bipartite mesh, in which every rank has four
\* neighbours and four ranks with a disjoint mask, was rejected
C15_Witness ==
  /\ sel.state = "table"
  /\ sel.nvlMesh = Bipartite
  /\ \A x \in Devices : Cardinality(hcmNeighbors(sel.nvlMesh, x)) = 4
  /\ sel.result.kind = "nullopt"

----------------------------------------------------------------------------
(* What the kernels store into peer-visible memory, in a run of one        *)
(* collective.                                                             *)

\* what the staging copy of rank s leaves at element e of its PeerBuffer
StagedVal(s, e) == IF e < cfg.meta[s].numel THEN InputVal(s, e) ELSE Stale

\* the values element e of rank j's PeerBuffer can hold when only rank j's
\* staging copy and rank j's own kernel, in the region the algorithm gives
\* it, have stored there
OwnStores(j, e) ==
  LET c == cfg.prog[1]
      k == KernelOf(j)
      N_per_rank == k.Na \div k.W
  IN  {Stale, StagedVal(j, e)}
        \cup (IF c.algo = "TWO_SHOT" /\ e \in (j * N_per_rank) .. ((j + 1) * N_per_rank - 1)
              THEN {SumOver([s \in Ranks |-> StagedVal(s, e)], Ranks)} ELSE {})

\* C16: write regions are disjoint and local.  During a collective no kernel
\* stores into another rank's PeerBuffer: the two-shot kernel of rank r
\* stores its reduce-scatter result into its own buffer, within its own
\* shard; the HCM kernel of rank r stores into its own relay scratch, the
\* second half of its own PeerBuffer; the one-shot kernel stores nothing
\* peer-visible.  So a PeerBuffer holds, outside those regions, what its
\* owner staged, and nothing is stored outside the PeerBuffers.
C16_LocalWrites ==
  \A j \in Ranks :
     /\ \A e \in DOMAIN buffers[j] :
           \/ buffers[j][e] \in OwnStores(j, e)
           \/ cfg.prog[1].algo = "HCM" /\ e >= RelayOffset
     /\ oob[j] = EmptyMem

----------------------------------------------------------------------------
(* The order between the stores of one device and the loads of another in  *)
(* the two-shot kernel.                                                    *)

\* the elements block b of rank r loads from srcs[ii] in the all-gather
GatherWords(k, r, b, ii) ==
  {GatherIndex(k, r, i, ii) + x :
     i \in Offsets(k, b, k.Na \div k.W), x \in 0 .. (NumelPerThread - 1)}

\* block b of rank s is through its reduce-scatter loop
DoneScatter(s, b) ==
  Staged(s) /\ (HasOp(s, "kernel") => blk[s][b].ph \in {"bar1", "done"})

\* the reduced value of element e
ReducedVal(e) == SumOver([s \in Ranks |-> StagedVal(s, e)], Ranks)

\* rank s's release of the second barrier has reached block b of rank r, or
\* r has acquired it, or r is past the loop that follows
Released1(r, b, s) ==
  \/ signals[r][1][b][s] > 0
  \/ blk[r][b].ph = "bar1" /\ s \in blk[r][b].acq
  \/ blk[r][b].ph = "done"

\* C17: cross-device happens-before at block granularity in the two-shot
\* kernel.  What block b of rank r loads from peer s in the all-gather is
\* what block b of rank s, and no block of another index, stored in its
\* reduce-scatter; that store precedes s's release of the second barrier
\* for block b, which precedes r's acquire and r's load, so from the release
\* on those elements hold the reduced values; and while a block still has
\* to read its shard of the peers' buffers as un-reduced input, nothing has
\* overwritten it.
C17_BlockHappensBefore ==
  \A r \in Ranks : \A b \in Blocks :
     (HasOp(r, "kernel") /\ Kernel(r).algo = "TWO_SHOT" /\ b < Kernel(r).blocks) =>
        LET k == Kernel(r) IN
        /\ \A ii \in 1 .. (k.W - 1) :
              LET s == (r + ii) % k.W IN
              /\ GatherWords(k, r, b, ii) = ShardElems(k, s, b)
              /\ \A b2 \in (0 .. (k.blocks - 1)) \ {b} :
                    GatherWords(k, r, b, ii) \cap ShardElems(k, s, b2) = {}
              /\ Released1(r, b, s) =>
                    /\ DoneScatter(s, b)
                    /\ \A e \in GatherWords(k, r, b, ii) : buffers[s][e] = ReducedVal(e)
        /\ Passed(r, b, "bar0") =>
              \A s \in Ranks : \A e \in ShardElems(k, r, b) :
                 buffers[s][e] = StagedVal(s, e)

\* C17's case: a grid of two blocks; a block of one rank has loaded its
\* peer's shard while the block of the other index of that peer has not
\* yet reduced its own
C17_Witness ==
  \E r \in Ranks : \E s \in Ranks \ {r} : \E b \in Blocks : \E b2 \in Blocks \ {b} :
     /\ HasOp(r, "kernel") /\ HasOp(s, "kernel")
     /\ Kernel(r).algo = "TWO_SHOT" /\ Kernel(r).blocks = 2
     /\ blk[r][b].ph = "done"
     /\ blk[s][b2].ph = "bar0"
     /\ \A e \in ShardElems(Kernel(s), s, b) : buffers[s][e] = ReducedVal(e)

----------------------------------------------------------------------------
(* The kind of the stores another device loads.                            *)

\* the elements of rank s's peer-visible memory the kernel k of rank r
\* loads (all with streamLoad128), r # s
RemoteLoads(k, r, s) ==
  CASE k.algo = "ONE_SHOT" -> 0 .. (k.Na - 1)
    [] k.algo = "TWO_SHOT" ->
         LET N_per_rank == k.Na \div k.W IN
         ((N_per_rank * r) .. (N_per_rank * (r + 1) - 1))
           \cup ((N_per_rank * s) .. (N_per_rank * (s + 1) - 1))
    [] k.algo = "HCM" ->
         (IF \E x \in 0 .. 2 : cfg.hcm[r][x] = s THEN 0 .. (k.Na - 1) ELSE {})
           \cup (IF cfg.hcm[r][3] = s
                 THEN {RelayOffset + e : e \in 0 .. (k.Na - 1)} ELSE {})
    [] OTHER -> {}

\* C18: memory-protocol discipline.  In every kernel, a store to a location
\* that a different device loads later in the same kernel is a
\* cache-streaming store (streamStore128): no element that the kernel of
\* another rank loads from a rank's peer-visible memory was stored there
\* through the cache.  This covers the two-shot shard results and the HCM
\* partial sums the relay neighbour reads from the relay scratch.
C18_StreamingStores ==
  \A r \in Ranks : \A s \in Ranks \ {r} :
     HasOp(r, "kernel") =>
        RemoteLoads(Kernel(r), r, s) \cap written[s].cached = {}

----------------------------------------------------------------------------
(* Where the HCM kernel addresses its relay scratch, in bytes from the     *)
(* start of the PeerBuffer.                                                *)

\* (char*)localRelay - (char*)buffers[rank]
RelayStartByte == RelayOffset * kBF16Size

\* the byte after the last element localRelay[i] the kernel k addresses
RelayEndByte(k) == (RelayOffset + k.Na) * kBF16Size

\* the byte after the staged input, [0, 2 * N_aligned)
StagedEndByte(k) == k.Na * kBF16Size

\* C19: HCM relay scratch placement.  With PeerBuffers of kMaxIntraNodeSize
\* bytes, for every HCM collective the dispatcher accepts, the relay
\* scratch the kernel addresses starts at byte offset kMaxIntraNodeSize / 2
\* of the PeerBuffer, ends at or before byte offset kMaxIntraNodeSize, and
\* does not overlap the staged input.
C19_RelayPlacement ==
  \A r \in Ranks :
     (HasOp(r, "kernel") /\ Kernel(r).algo = "HCM") =>
        /\ RelayStartByte = cfg.g.maxIntraNodeSize \div 2
        /\ RelayEndByte(Kernel(r)) <= cfg.g.maxIntraNodeSize
        /\ StagedEndByte(Kernel(r)) <= RelayStartByte

\* the part of C19 the code keeps: the scratch lies after the staged input
C19_AfterStaged ==
  \A r \in Ranks :
     (HasOp(r, "kernel") /\ Kernel(r).algo = "HCM") =>
        StagedEndByte(Kernel(r)) <= RelayStartByte

----------------------------------------------------------------------------
(* The launch geometry: getLaunchConfig with the program's constants, over *)
(* every window the host functions pass it.                                *)

\* the longest window the host functions admit, in bf16 elements:
\* TORCH_CHECK(N_aligned <= kMaxIntraNodeSize / input.element_size())
MaxLaunchElems == kMaxIntraNodeSize \div kBF16Size

\* the longest window whose grid-stride loop is followed thread by thread
LoopCheckElems == 16640

\* N_aligned: the positive multiples of numelPerWarp
LaunchWindows ==
  LET unit == numelPerWarpOf(RealGeom, kBF16Size)
  IN  {unit * j : j \in 1 .. (MaxLaunchElems \div unit)}

InitLaunch ==
  /\ InitWith(NoRun)
  /\ \E n \in LaunchWindows : sel = [state |-> "launch", N |-> n]

Launch ==
  /\ sel.state = "launch"
  /\ sel' = [state |-> "config", N |-> sel.N,
             cfgL |-> getLaunchConfig(sel.N, kBF16Size, cfg.g)]
  /\ UNCHANGED << cfg, host, stream, tensor, tmp, buffers, oob, signals, blk,
                  written >>

NextLaunch == Launch

SpecLaunch == InitLaunch /\ [][NextLaunch]_vars

\* the least q with q * b >= a
Ceil(a, b) == IF a % b = 0 THEN a \div b ELSE a \div b + 1

\* the threads <<blockIdx.x, threadIdx.x>> whose loop
\* for (i = offset; i < N_aligned; i += stride) takes the value i
Visitors(k, i) ==
  LET stride == k.threads * k.blocks * NumelPerThread IN
  {bt \in (0 .. (k.blocks - 1)) \X (0 .. (k.threads - 1)) :
     LET offset == (k.threads * bt[1] + bt[2]) * NumelPerThread
     IN  i >= offset /\ (i - offset) % stride = 0}

----------------------------------------------------------------------------
(* Two collectives back to back on every rank's stream.                    *)

\* the operations the calls after the first have put on rank r's stream
LaterOps(r) ==
  SumOver([n \in 2 .. host[r].pc |-> Len(CallOf(r, n).ops)], 2 .. host[r].pc)

\* rank r's first collective has completed and nothing of a later one has
\* stored to r's tensor yet: the later operations are all still on the
\* stream, or only the staging copy of the second has run and no block of
\* its kernel is through the first barrier
FirstResultStands(r) ==
  /\ host[r].pc >= 1 /\ ~host[r].raised
  /\ \/ Len(stream[r]) = LaterOps(r) /\ (stream[r] # << >> => HasOp(r, "copy_in"))
     \/ /\ LaterOps(r) > 0
        /\ Len(stream[r]) = LaterOps(r) - 1
        /\ HasOp(r, "kernel")
        /\ \A b \in Blocks : blk[r][b].ph \in {"idle", "bar0"}

\* C21: back-to-back collectives do not race on the peer buffers.  When
\* every rank issues consecutive collectives with no other synchronisation
\* between them, the staging copy and the kernel stores of a rank's second
\* collective never overwrite a location of its PeerBuffer that a peer has
\* still to read for the first; so every rank's result of the first
\* collective is the sum of the first collective's inputs only.
C21_BackToBack ==
  \A r \in Ranks : FirstResultStands(r) => Reduced(r)

\* the same for runs of one collective, where there is nothing to race with
C21_SingleCall ==
  (Len(cfg.prog) = 1 /\ ~HcmRun) => C21_BackToBack

----------------------------------------------------------------------------
(* The counters over longer sequences: up to MaxCounterCalls one-shot and  *)
(* two-shot collectives on every rank's stream.                            *)

\* most calls of a run that follows the counters
MaxCounterCalls == 3

\* every call of the run c is accepted and launches a kernel
Accepted(c) ==
  \A n \in 1 .. Len(c.prog) :
     LET res == allReduce(c.meta[0], 0, c.prog[n].worldSize, c.prog[n].algo, c.g)
     IN  ~res.raised /\ Len(res.ops) >= 2

InitCounters ==
  /\ sel = SelIdle
  /\ \E prog \in Progs(MaxSeqWorld, MaxCounterCalls) :
        /\ Accepted(RunCfg(MaxSeqWorld, SeqNumel, prog, NoHcm))
        /\ InitWith(RunCfg(MaxSeqWorld, SeqNumel, prog, NoHcm))

NextCounters ==
  \/ \E r \in Devices : r \in Ranks /\ AllReduce(r)
  \/ \E r \in Devices : r \in Ranks /\ StagingCopy(r)
  \/ \E r \in Devices : r \in Ranks /\ CopyBack(r)
  \/ \E r \in Devices : r \in Ranks /\ LaneRelease(r)
  \/ \E r \in Devices : r \in Ranks /\ LaneAcquire(r)
  \/ \E r \in Devices : r \in Ranks /\ \E b \in Blocks : OneShotLoop(r, b)
  \/ \E r \in Devices : r \in Ranks /\ \E b \in Blocks : ReduceScatter(r, b)
  \/ \E r \in Devices : r \in Ranks /\ \E b \in Blocks : AllGather(r, b)

SpecCounters == InitCounters /\ [][NextCounters]_vars

\* the barriers of a kernel, in order
Phases(k) ==
  CASE k.algo = "ONE_SHOT" -> << "bar0" >>
    [] k.algo = "TWO_SHOT" -> << "bar0", "bar1" >>
    [] k.algo = "HCM" -> << "bar0", "relay" >>

\* the lanes of rank r that signal rank s in barrier ph on table tab
LanesTo(k, r, ph, s, tab) ==
  {t \in BarLanes(k, ph) : BarTarget(k, r, ph, t) = s /\ BarTable(k, ph) = tab}

\* what block b of rank r has exchanged with rank s on table tab in the
\* barriers i of kernel k for which take(i) is a set of lanes
Exchanged(k, r, b, s, tab, take(_)) ==
  IF b >= k.blocks THEN 0
  ELSE SumOver([i \in 1 .. Len(Phases(k)) |->
                  Cardinality(LanesTo(k, r, Phases(k)[i], s, tab) \cap take(i))],
               1 .. Len(Phases(k)))

\* the calls of rank r whose kernel has completed
CallsDone(r) ==
  host[r].pc - Cardinality({i \in DOMAIN stream[r] : stream[r][i].op = "kernel"})

\* the number of releases (field "rel") or acquires (field "acq") block b of
\* rank r has made towards rank s on table tab, from the position of r's
\* stream and of the block in the running kernel
Count(r, b, s, tab, field) ==
  LET all(i) == 0 .. (cfg.g.threadsPerBlock - 1)
      done == SumOver([n \in 1 .. CallsDone(r) |->
                         Exchanged(CallOf(r, n).ops[2], r, b, s, tab, all)],
                      1 .. CallsDone(r))
      now(i) ==
        LET k == Kernel(r)
            ph == blk[r][b].ph
            at == CHOOSE j \in 0 .. Len(Phases(k)) :
                     IF ph = "done" THEN j = 0
                     ELSE IF ph = "idle" THEN j = 0
                     ELSE j > 0 /\ Phases(k)[j] = ph
        IN  IF ph = "done" THEN all(i)
            ELSE IF ph = "idle" THEN {}
            ELSE IF i < at THEN all(i)
            ELSE IF i = at THEN blk[r][b][field]
            ELSE {}
  IN  done + (IF HasOp(r, "kernel")
              THEN Exchanged(Kernel(r), r, b, s, tab, now) ELSE 0)

TwoShotOnly == \A n \in 1 .. Len(cfg.prog) : cfg.prog[n].algo = "TWO_SHOT"

----------------------------------------------------------------------------
(* The selector followed by the dispatcher: allReduce is called with the   *)
(* algorithm selectAllReduceAlgo returned for the same tensor.             *)

AgreeWorlds == 2 .. kMaxDevices

\* lengths at and next to the places where the selector's and the
\* dispatcher's comparisons change: an alignment unit, the one-shot and HCM
\* threshold, the largest two-shot window of each world size, and the cap
AgreeNumels ==
  LET unit == numelPerWarpOf(RealGeom, kBF16Size)
      near(x) == {x - 1, x, x + 1}
  IN  {0} \cup near(unit)
          \cup near(kOneShotThreshBytes - unit) \cup near(kOneShotThreshBytes)
          \cup UNION {near((kTwoShotThreshBytes \div (unit * w)) * (unit * w)) :
                        w \in AgreeWorlds}
          \cup near(kMaxIntraNodeSize \div kBF16Size)

InitAgree ==
  /\ InitWith(NoRun)
  /\ \E d \in DTypes : \E n \in AgreeNumels : \E t \in Topologies :
       \E w \in AgreeWorlds :
          sel = [state |-> "called", dtype |-> d, numel |-> n, topology |-> t,
                 worldSize |-> w]

\* allReduce(input, algo) with the algorithm the selector returned, on a
\* tensor that passes checkInput
DispatchSelected ==
  /\ sel.state = "done"
  /\ sel.result \in AllReduceAlgos \ {"NONE"}
  /\ sel' = [state |-> "dispatched", dtype |-> sel.dtype, numel |-> sel.numel,
             topology |-> sel.topology, worldSize |-> sel.worldSize,
             result |-> sel.result,
             res |-> allReduce([GoodTensor(0, sel.numel) EXCEPT !.dtype = sel.dtype],
                               0, sel.worldSize, sel.result, cfg.g)]
  /\ UNCHANGED << cfg, host, stream, tensor, tmp, buffers, oob, signals, blk,
                  written >>

NextAgree == Select \/ DispatchSelected

SpecAgree == InitAgree /\ [][NextAgree]_vars

\* C23: selector and dispatcher agree.  With kMaxIntraNodeSize of 20 MiB,
\* for every bf16 input, topology and world size in 2..8 for which
\* selectAllReduceAlgo returns an algorithm other than None, allReduce with
\* that algorithm passes the dispatcher's size check, N_aligned <=
\* kMaxIntraNodeSize / element size (the staging copy is enqueued), and for
\* HCM the aligned payload fits in half of the PeerBuffer.
C23_SelectorDispatcherAgree ==
  sel.state = "dispatched" =>
     /\ Len(sel.res.ops) >= 1
     /\ sel.result = "HCM" =>
           alignUp(sel.numel, numelPerWarpOf(cfg.g, kBF16Size), cfg.g) * kBF16Size
             <= kMaxIntraNodeSize \div 2

\* C23's case: a two-shot selected for a world size that is no power of two
\* and a window within one alignment unit of the cap, and dispatched
C23_Witness ==
  /\ sel.state = "dispatched"
  /\ sel.result = "TWO_SHOT"
  /\ sel.worldSize = 3
  /\ alignUp(sel.numel, 3 * numelPerWarpOf(cfg.g, kBF16Size), cfg.g)
        > kMaxIntraNodeSize \div kBF16Size - 3 * numelPerWarpOf(cfg.g, kBF16Size)
  /\ Len(sel.res.ops) >= 1

====
